---------------------------- MODULE Spec2Model ----------------------------
(***************************************************************************)
(* Gargantua black-hole renderer.                                          *)
(*                                                                         *)
(* Two state machines are modelled:                                        *)
(*   SpecRay - the fragment shader's main(): camera set-up, the ray        *)
(*             integration loop and the compositor, for one pixel;         *)
(*   Spec    - the host: GargantuaRenderer's input handlers and render     *)
(*             loop, and the wiring done by main.js;                       *)
(*   SpecOrbit - the same handlers driven by an orbit drag that is taken   *)
(*             back, followed by idle frames.                              *)
(*                                                                         *)
(* GLSL and JavaScript compute in floating point; the model computes in    *)
(* fixed point with machine integers:                                      *)
(*   lengths and positions   1/PU   world units  (PU = 200)                *)
(*   directions, sin, cos    1/VU                                          *)
(*   transmission            1/TU                                          *)
(*   opacities, densities    1/1000                                        *)
(*   pixel coordinates uv    1/VU                                          *)
(*   camera angles           1/1000 radian                                 *)
(*   camera distance         1/100  world units                            *)
(***************************************************************************)
EXTENDS Integers, Sequences, FiniteSets, TLC

VARIABLES
    ray,        \* the fragment shader's locals for one pixel (SpecRay)
    frag,       \* the uniforms and pixel coordinate of that invocation
    twin,       \* the ring geometry the previous frame left for the same pixel
    disk,       \* a sample point of the disk and the last two samples of it
    probe,      \* a position and what the gravity and step rules give there
    camera,     \* GargantuaRenderer.camera
    mouse,      \* GargantuaRenderer.mouse
    touch,      \* GargantuaRenderer.touch
    settings,   \* GargantuaRenderer.settings
    fps,        \* frameCount / lastFpsTime / value last reported
    gl,         \* the uniforms last uploaded and the number of draw calls
    audio,      \* GargantuaAudio, and what the distance callback delivered
    page,       \* the document: start-up phase, body, listeners, frame loop
    clock,      \* timestamp handed to the last animation frame (ms)
    hist        \* history: event and frame counters, round-trip bookkeeping

rayVars == <<ray, frag, twin, disk, probe>>
hostVars ==
    <<camera, mouse, touch, settings, fps, gl, audio, page, clock, hist>>
vars ==
    <<ray, frag, twin, disk, probe, camera, mouse, touch, settings, fps, gl, audio,
      page, clock, hist>>

---------------------------------------------------------------------------
(* Fixed-point scales.                                                     *)

PU == 200
VU == 10000
TU == 10000

---------------------------------------------------------------------------
(* Arithmetic: GLSL built-ins on fixed-point integers.                     *)

Abs(x) == IF x < 0 THEN -x ELSE x
Min(a, b) == IF a < b THEN a ELSE b
Max(a, b) == IF a > b THEN a ELSE b
clamp(x, lo, hi) == Min(Max(x, lo), hi)

\* a / b rounded to the nearest integer (b > 0)
RDiv(a, b) == (2 * a + b) \div (2 * b)

RECURSIVE SqrtSearch(_, _, _)
SqrtSearch(n, lo, hi) ==
    IF lo >= hi THEN lo
    ELSE LET mid == (lo + hi + 1) \div 2
         IN  IF mid * mid <= n THEN SqrtSearch(n, mid, hi)
             ELSE SqrtSearch(n, lo, mid - 1)

\* floor(sqrt(n)) for 0 <= n < 2^31
sqrt(n) == SqrtSearch(n, 0, 46340)

\* length(v): vectors too long to square in a machine integer are measured
\* at a coarser resolution, as floating point does
length(v) ==
    LET m == Max(Abs(v[1]), Max(Abs(v[2]), Abs(v[3])))
    IN  IF m <= 26000
        THEN sqrt(v[1] * v[1] + v[2] * v[2] + v[3] * v[3])
        ELSE LET k == m \div 26000 + 1
                 a == RDiv(v[1], k)
                 b == RDiv(v[2], k)
                 c == RDiv(v[3], k)
             IN  k * sqrt(a * a + b * b + c * c)

\* normalize(v): a direction in 1/VU
normalize(v) ==
    LET l == length(v)
    IN  IF l = 0 THEN <<0, 0, 0>>
        ELSE <<RDiv(v[1] * VU, l), RDiv(v[2] * VU, l), RDiv(v[3] * VU, l)>>

dot(a, b) == a[1] * b[1] + a[2] * b[2] + a[3] * b[3]

cross(a, b) ==
    <<a[2] * b[3] - a[3] * b[2],
      a[3] * b[1] - a[1] * b[3],
      a[1] * b[2] - a[2] * b[1]>>

RECURSIVE ExpWhole(_, _)
ExpWhole(e, k) == IF k = 0 THEN e ELSE ExpWhole((e * 3679) \div 10000, k - 1)

\* exp(-x): x >= 0 in 1/1000, result in 1/TU (Taylor series on the
\* fractional part, e^-1 per whole unit)
ExpNeg(x) ==
    LET k  == x \div 1000
        f  == x % 1000
        t1 == (TU * f) \div 1000
        t2 == (t1 * f) \div 2000
        t3 == (t2 * f) \div 3000
        t4 == (t3 * f) \div 4000
        t5 == (t4 * f) \div 5000
        t6 == (t5 * f) \div 6000
    IN  IF k >= 10 THEN 0
        ELSE ExpWhole(TU - t1 + t2 - t3 + t4 - t5 + t6, k)

\* smoothstep(edge0, edge1, x) in 1/1000; with edge0 > edge1 the usual
\* clamp((x - edge0) / (edge1 - edge0)) implementation
smoothstep(e0, e1, x) ==
    LET t == IF e0 < e1
             THEN clamp(((x - e0) * 1000) \div (e1 - e0), 0, 1000)
             ELSE clamp(((e0 - x) * 1000) \div (e0 - e1), 0, 1000)
    IN  (((t * t) \div 1000) * (3000 - 2 * t)) \div 1000

---------------------------------------------------------------------------
(* Shader configuration (fragment shader #defines), in model units.        *)

MAX_STEPS == 280
STEP_SIZE == 50            \* 0.25 world units
RS == 400                  \* 2.0
PHOTON_SPHERE == 600       \* 3.0
DISK_INNER == 600          \* 3.0
DISK_OUTER == 3000         \* 15.0
CAM_DIST_DEFAULT == 7000   \* 35.0
CAM_ZOOM_DEFAULT == 18     \* 1.8, in tenths

\* RS * 0.52: the absorption radius
AbsorptionRadius == (RS * 52) \div 100
\* transmission < 0.01: opacity saturated
SaturationThreshold == TU \div 100

---------------------------------------------------------------------------
(* Gravity model.                                                          *)

\* a * f / unit, computed in two parts to stay within machine integers
mulDiv(a, f, unit) == (a \div unit) * f + RDiv((a % unit) * f, unit)

\* the acceleration pointing away from the origin
blackHoleAccelRepel(pos) ==
    LET r == length(pos)
        accel == (((((36000 * PU) \div r) * PU) \div r) * PU) \div r
    IN  IF r < PU \div 10 THEN <<0, 0, 0>>
        ELSE <<RDiv(pos[1] * accel, r),
               RDiv(pos[2] * accel, r),
               RDiv(pos[3] * accel, r)>>

\* the guard at 0.09 in place of 0.1
blackHoleAccelNarrowGuard(pos) ==
    LET r == length(pos)
        accel == (((((36000 * PU) \div r) * PU) \div r) * PU) \div r
    IN  IF r < (9 * PU) \div 100 THEN <<0, 0, 0>>
        ELSE <<-RDiv(pos[1] * accel, r),
               -RDiv(pos[2] * accel, r),
               -RDiv(pos[3] * accel, r)>>

\* the older shader's blackHoleAccel(pos):
\*   -normalize(pos) * (1.5 * M * RS / r^3)
\*                   * (1 + 2 exp(-(r - PHOTON_SPHERE)^2 * 0.5))
blackHoleAccelPhoton(pos) ==
    LET r == length(pos)
        accel == (((((30000 * PU) \div r) * PU) \div r) * PU) \div r
        d == 5 * (r - PHOTON_SPHERE)
        photonFactor == 1000 + (IF Abs(d) > 10000 THEN 0
                                ELSE (2 * ExpNeg((d * d) \div 2000)) \div 10)
        mag == mulDiv(accel, photonFactor, 1000)
        dir == normalize(pos)
    IN  IF r < PU \div 10 THEN <<0, 0, 0>>
        ELSE <<-mulDiv(mag, dir[1], VU),
               -mulDiv(mag, dir[2], VU),
               -mulDiv(mag, dir[3], VU)>>

\* blackHoleAccel(pos): acceleration in 1/VU per unit time
blackHoleAccel(pos) ==
    LET r == length(pos)
        \* 1.8 * M * RS / (r * r * r)
        accel == (((((36000 * PU) \div r) * PU) \div r) * PU) \div r
    IN  IF r < PU \div 10 THEN <<0, 0, 0>>
        ELSE <<-RDiv(pos[1] * accel, r),
               -RDiv(pos[2] * accel, r),
               -RDiv(pos[3] * accel, r)>>
---------------------------------------------------------------------------
(* Accretion disk.                                                         *)
(*                                                                         *)
(* sampleDisk's procedural texture (noise, spiral shocks, plunge streaks)  *)
(* is a function of the sample point and uTime that is not reproduced      *)
(* here; a sample of it is an input drawn from the range the code gives    *)
(* it:                                                                     *)
(*   mod   = 0.45 + 0.4 * turbContrast + 0.25 * shockFront * spiralStrength*)
(*           in [0.17, 0.98]   (|turbContrast| <= 0.6^0.7)                 *)
(*   chaos = noise + 0.7 * plunge^2   in [0, 1.7], before iscoProximity    *)
(*   temp  = the temperature before the crossing and Doppler factors       *)
(***************************************************************************)

TexSamples ==
    { [mod |-> 170, chaos |-> 0, temp |-> 300],
      [mod |-> 450, chaos |-> 600, temp |-> 1000],
      [mod |-> 980, chaos |-> 1700, temp |-> 1900] }

\* the secondary image boosted by 1.5 only
crossingBoostWeak(crossingNum) ==
    IF crossingNum = 2 THEN 1500
    ELSE IF crossingNum > 2 THEN 3000 + 500 * crossingNum
    ELSE 1000

\* crossingBoost: 1.0, 2.5 for the first secondary image, 3.0 + 0.5 n after
crossingBoost(crossingNum) ==
    IF crossingNum = 2 THEN 2500
    ELSE IF crossingNum > 2 THEN 3000 + 500 * crossingNum
    ELSE 1000

\* g = clamp(1 / (1 - vLos), 0.4, 2.5), vLos = dot(velDir, rayDir) * vOrb
dopplerG(p, rayDir) ==
    LET rm     == 5 * length(<<p[1], 0, p[3]>>)
        vOrb   == Min(sqrt((1000000 \div rm) * 1000), 450)
        velDir == normalize(<<-p[3], 0, p[1]>>)
        vLos   == (RDiv(dot(velDir, rayDir), VU) * vOrb) \div 1000
    IN  clamp((VU * 1000) \div (VU - vLos), 400, 2500)

\* the Doppler brightness applied whatever the toggle says
dopplerFacAlways(p, rayDir, uDoppler) ==
    (dopplerG(p, rayDir) * dopplerG(p, rayDir)) \div 1000

\* dopplerFac = g^2 when uDoppler is on
dopplerFac(p, rayDir, uDoppler) ==
    IF ~uDoppler THEN 1000
    ELSE LET g == dopplerG(p, rayDir) IN (g * g) \div 1000

\* gravFac = sqrt(max(0.2, 1 - RS / r))
gravFac(p, uRedshift) ==
    IF ~uRedshift THEN 1000
    ELSE LET rm == 5 * length(<<p[1], 0, p[3]>>)
         IN  sqrt(Max(200, 1000 - (2000 * 1000) \div rm) * 1000)

\* density before the Doppler, redshift and crossing factors
diskDensity(p, tex) ==
    LET rm            == 5 * length(<<p[1], 0, p[3]>>)
        iscoProximity == 1000 - clamp(((rm - 3000) * 1000) \div 2400, 0, 1000)
        chaos         == (tex.chaos * iscoProximity) \div 1000
        innerEdge     == smoothstep(2850, 3060, rm)
        outerEdge     == smoothstep(15300, 13500, rm)
        innerDist     == (rm - 3000) * 2
        innerGlow     == ExpNeg((innerDist * innerDist) \div 1000) \div 10
    IN  (((innerEdge * outerEdge) \div 1000) * tex.mod) \div 1000
          + chaos \div 2 + (innerGlow * 8) \div 10

\* the opacity computed without the early out on the disk bounds
sampleDiskUnbounded(p, rayDir, crossingNum, tex, uDoppler, uRedshift) ==
    (((((diskDensity(p, tex) * dopplerFac(p, rayDir, uDoppler)) \div 1000)
         * gravFac(p, uRedshift)) \div 1000)
         * crossingBoost(crossingNum)) \div 1000

\* sampleDisk(p, rayDir, time, crossingNum).a: the opacity channel, 1/1000
sampleDisk(p, rayDir, crossingNum, tex, uDoppler, uRedshift) ==
    LET r == length(<<p[1], 0, p[3]>>)
    IN  IF r < (DISK_INNER * 95) \div 100 \/ r > (DISK_OUTER * 102) \div 100
        THEN 0
        ELSE (((((diskDensity(p, tex) * dopplerFac(p, rayDir, uDoppler)) \div 1000)
                 * gravFac(p, uRedshift)) \div 1000)
                 * crossingBoost(crossingNum)) \div 1000

\* temp after "temp *= 1.2 / 1.3" and "temp *= clamp(g, 0.7, 1.4)"
diskTemp(p, rayDir, crossingNum, tex, uDoppler) ==
    LET crossed == (tex.temp * (IF crossingNum = 2 THEN 1200
                                ELSE IF crossingNum > 2 THEN 1300
                                ELSE 1000)) \div 1000
    IN  IF uDoppler
        THEN (crossed * clamp(dopplerG(p, rayDir), 700, 1400)) \div 1000
        ELSE crossed

\* sampleDisk(...).rgb: the colour is interstellarDiskColor(temp * gravFac)
\* mixed with the hot spots and the chaos of the texture; it is represented
\* by the three quantities it is computed from
diskEmission(p, rayDir, crossingNum, tex, uDoppler, uRedshift) ==
    IF \/ length(<<p[1], 0, p[3]>>) < (DISK_INNER * 95) \div 100
       \/ length(<<p[1], 0, p[3]>>) > (DISK_OUTER * 102) \div 100
    THEN [temp |-> 0, mod |-> 0, chaos |-> 0]
    ELSE [temp |-> (diskTemp(p, rayDir, crossingNum, tex, uDoppler)
                      * gravFac(p, uRedshift)) \div 1000,
          mod |-> tex.mod, chaos |-> tex.chaos]
\* No earlier frame.
NoFrame ==
    [drawn |-> FALSE, outcome |-> "TRAVELING", minR |-> 0, minPhotonDist |-> 0,
     uTime |-> 0, col |-> <<>>]

\* No call of sampleDisk yet.
NoSample ==
    [rayDir |-> <<0, 0, 0>>, crossingNum |-> -1, alpha |-> 0,
     emission |-> [temp |-> 0, mod |-> 0, chaos |-> 0]]

\* The disk sampler at rest, for the specifications that do not exercise it.
DiskIdle ==
    [p |-> <<DISK_INNER, 0, 0>>,
     tex |-> [mod |-> 450, chaos |-> 600, temp |-> 1000],
     uDoppler |-> TRUE, uRedshift |-> TRUE, cur |-> NoSample, prev |-> NoSample]

\* No call of blackHoleAccel yet.
NoProbe ==
    [pos |-> <<0, 0, 0>>, vel |-> <<0, 0, 0>>, r |-> -1,
     accel |-> <<0, 0, 0>>, accelOld |-> <<0, 0, 0>>,
     h |-> 0, hOld |-> 0, hZoomed |-> 0,
     newPos |-> <<0, 0, 0>>, newAccel |-> <<0, 0, 0>>]

\* The gravity probe at rest.
ProbeIdle == [uCamDistance |-> 35 * PU, cur |-> NoProbe, prev |-> NoProbe]

---------------------------------------------------------------------------
(* main(): one fragment shader invocation.                                 *)

\* The uniforms and the pixel of the invocation.  sin and cos of the camera
\* angles are tabulated: azimuth pi and elevation 0.17 (the renderer's initial
\* pose).  The camera is at its initial distance 35 or, for one pixel, at
\* the largest distance the controller allows, 100 (one ray that passes the
\* hole within 40 and one that stays further out).
FragInputs ==
    { [sinElev |-> e[1], cosElev |-> e[2], sinAzi |-> 0, cosAzi |-> -VU,
       uCamDistance |-> d, uCamZoom |-> 18, uv |-> p,
       uDoppler |-> t[1], uRedshift |-> t[2]] :
         e \in {<<1692, 9856>>},
         d \in {35 * PU},
         t \in {<<TRUE, TRUE>>, <<FALSE, FALSE>>},
         p \in {<<0, 0>>, <<0, -3500>>, <<0, 4000>>, <<0, -1700>>,
                <<152, -1628>>} }
    \cup
    { [sinElev |-> 1692, cosElev |-> 9856, sinAzi |-> 0, cosAzi |-> -VU,
       uCamDistance |-> 100 * PU, uCamZoom |-> 18, uv |-> p,
       uDoppler |-> TRUE, uRedshift |-> TRUE] :
         p \in {<<6730, 0>>, <<9000, 0>>} }

\* ray origin ro
rayOrigin(f) ==
    LET dist == IF f.uCamDistance > 0 THEN f.uCamDistance ELSE CAM_DIST_DEFAULT
        horiz == RDiv(dist * f.cosElev, VU)
    IN  <<RDiv(horiz * f.sinAzi, VU),
          RDiv(dist * f.sinElev, VU),
          RDiv(horiz * f.cosAzi, VU)>>

\* ray direction rd, for the ray origin ro
rayDirection(f, ro) ==
    LET zoom    == IF f.uCamZoom > 0 THEN f.uCamZoom ELSE CAM_ZOOM_DEFAULT
        forward == normalize(<<-ro[1], -ro[2], -ro[3]>>)
        worldUp == IF Abs(f.sinElev) > (99 * VU) \div 100
                   THEN <<0, 0, IF f.sinElev > 0 THEN -1 ELSE 1>>
                   ELSE <<0, 1, 0>>
        right   == normalize(cross(forward, worldUp))
        upV     == cross(right, forward)
        up      == <<RDiv(upV[1], VU), RDiv(upV[2], VU), RDiv(upV[3], VU)>>
    IN  normalize(
          <<RDiv(f.uv[1] * right[1], VU) + RDiv(f.uv[2] * up[1], VU)
              + RDiv(zoom * forward[1], 10),
            RDiv(f.uv[1] * right[2], VU) + RDiv(f.uv[2] * up[2], VU)
              + RDiv(zoom * forward[2], 10),
            RDiv(f.uv[1] * right[3], VU) + RDiv(f.uv[2] * up[3], VU)
              + RDiv(zoom * forward[3], 10)>>)

\* the locals of main() on entry to the integration loop
RayInit(ro, rd) ==
    [ pos |-> ro, vel |-> rd,
      diskLight |-> 0, transmission |-> TU,
      minR |-> length(ro),
      diskCrossings |-> 0, lastY |-> ro[2],
      minPhotonDist |-> 100 * PU,
      i |-> 0, pc |-> "loop", outcome |-> "TRAVELING",
      ringLight |-> 0, glowLight |-> 0, edgeLight |-> 0, starLight |-> 0,
      \* history: sign changes of pos.y along the stepped path, whether a
      \* position inside the absorption radius was ever taken, steps taken
      signChanges |-> 0, entered |-> FALSE, steps |-> 0 ]

\* STEP_SIZE of the older shader, 0.12
STEP_SIZE_OLD == 24

\* the older shader's adaptive step size
stepSizeOld(r) ==
    IF r < PHOTON_SPHERE + PU THEN (STEP_SIZE_OLD * 25) \div 100
    ELSE IF r < 6 * PU THEN (STEP_SIZE_OLD * 5) \div 10
    ELSE IF r > 40 * PU THEN STEP_SIZE_OLD * 2
    ELSE STEP_SIZE_OLD

\* the planned adaptive step size: the tiers applied to a base step up to
\* 40% larger when the camera is close
stepSizeZoomed(r, uCamDistance) ==
    LET zoomFactor == smoothstep(20000, 40000, 5 * uCamDistance)
        baseStep   == (STEP_SIZE * (1000 + ((1000 - zoomFactor) * 4) \div 10))
                         \div 1000
    IN  IF r < PHOTON_SPHERE + (3 * PU) \div 10 THEN (baseStep * 2) \div 10
        ELSE IF r < 5 * PU  THEN (baseStep * 5) \div 10
        ELSE IF r < 12 * PU THEN baseStep
        ELSE IF r < 20 * PU THEN (baseStep * 15) \div 10
        ELSE IF r < 35 * PU THEN (baseStep * 25) \div 10
        ELSE IF r < 60 * PU THEN baseStep * 4
        ELSE baseStep * 6

\* the step shrinking again between 12 and 20
stepSizeDip(r) ==
    IF r < PHOTON_SPHERE + (3 * PU) \div 10 THEN (STEP_SIZE * 2) \div 10
    ELSE IF r < 5 * PU  THEN (STEP_SIZE * 5) \div 10
    ELSE IF r < 12 * PU THEN STEP_SIZE
    ELSE IF r < 20 * PU THEN (STEP_SIZE * 8) \div 10
    ELSE IF r < 35 * PU THEN (STEP_SIZE * 25) \div 10
    ELSE IF r < 60 * PU THEN STEP_SIZE * 4
    ELSE STEP_SIZE * 6

\* adaptive step size h
stepSize(r) ==
    IF r < PHOTON_SPHERE + (3 * PU) \div 10 THEN (STEP_SIZE * 2) \div 10
    ELSE IF r < 5 * PU  THEN (STEP_SIZE * 5) \div 10
    ELSE IF r < 12 * PU THEN STEP_SIZE
    ELSE IF r < 20 * PU THEN (STEP_SIZE * 15) \div 10
    ELSE IF r < 35 * PU THEN (STEP_SIZE * 25) \div 10
    ELSE IF r < 60 * PU THEN STEP_SIZE * 4
    ELSE STEP_SIZE * 6

\* lastY * newPos.y < 0.0
crossedDisk(lastY, newY) ==
    (lastY < 0 /\ newY > 0) \/ (lastY > 0 /\ newY < 0)

\* vel + accel * h * 0.5
halfKick(vel, accel, h) ==
    <<vel[1] + RDiv(accel[1] * h, 2 * PU),
      vel[2] + RDiv(accel[2] * h, 2 * PU),
      vel[3] + RDiv(accel[3] * h, 2 * PU)>>

\* pos + velHalf * h
drift(pos, velHalf, h) ==
    <<pos[1] + RDiv(velHalf[1] * h, VU),
      pos[2] + RDiv(velHalf[2] * h, VU),
      pos[3] + RDiv(velHalf[3] * h, VU)>>

\* mix(pos, newPos, t), t = abs(lastY) / (abs(lastY) + abs(newPos.y) + 1e-6)
crossingPoint(pos, newPos, lastY) ==
    LET t == IF lastY = 0 /\ newPos[2] = 0 THEN 0
             ELSE (Abs(lastY) * 1000) \div (Abs(lastY) + Abs(newPos[2]))
    IN  <<pos[1] + RDiv((newPos[1] - pos[1]) * t, 1000),
          pos[2] + RDiv((newPos[2] - pos[2]) * t, 1000),
          pos[3] + RDiv((newPos[3] - pos[3]) * t, 1000)>>

\* the values one iteration computes before it touches the ray state
Leapfrog(newPos, newVel, crossPos, lastY) ==
    [ newPos |-> newPos, newVel |-> newVel,
      crossed |-> crossedDisk(lastY, newPos[2]),
      crossPos |-> crossPos,
      crossR |-> length(<<crossPos[1], 0, crossPos[3]>>) ]

\* the disk is sampled in this iteration
SamplesDisk(s, lf) ==
    /\ lf.crossed
    /\ lf.crossR > (DISK_INNER * 9) \div 10
    /\ lf.crossR < (DISK_OUTER * 11) \div 10

\* exp(+light * 0.3) in place of exp(-light * 0.3)
AttenuateSignSlip(transmission, alpha, minPhotonDist) ==
    LET photonBoost == TU + ExpNeg((minPhotonDist * minPhotonDist) \div 20)
        light       == (((alpha * (photonBoost \div 10)) \div 1000) * 9) \div 10
    IN  (transmission * TU) \div Max(1, ExpNeg((light * 3) \div 10))

\* transmission after the disk sample diskData.a = alpha
Attenuate(transmission, alpha, minPhotonDist) ==
    LET photonBoost == TU + ExpNeg((minPhotonDist * minPhotonDist) \div 20)
        light       == (((alpha * (photonBoost \div 10)) \div 1000) * 9) \div 10
    IN  (transmission * ExpNeg((light * 3) \div 10)) \div TU

\* light added to col by the disk sample
Emitted(transmission, alpha, minPhotonDist) ==
    LET photonBoost == TU + ExpNeg((minPhotonDist * minPhotonDist) \div 20)
        light       == (((alpha * (photonBoost \div 10)) \div 1000) * 9) \div 10
    IN  (light * transmission) \div TU

\* a crossing counted twice
countCrossingTwice(n) == n + 2

\* diskCrossings++
countCrossing(n) == n + 1

\* the loop test taken one iteration too far
loopContinuesOffByOne(i) == i <= MAX_STEPS

\* i < MAX_STEPS
loopContinues(i) == i < MAX_STEPS

\* the escape test without the approach condition
escapedUnapproached(r, minR) == r > 120 * PU

\* r > 120.0 && minR < 40.0
escaped(r, minR) == r > 120 * PU /\ minR < 40 * PU

\* lastY = pos.y; pos = newPos; vel = newVel; the escape test; i++
Advance(s, lf, r) ==
    LET moved == [s EXCEPT !.lastY = s.pos[2], !.pos = lf.newPos,
                           !.vel = lf.newVel, !.steps = @ + 1,
                           !.signChanges =
                               IF crossedDisk(s.pos[2], lf.newPos[2])
                               THEN @ + 1 ELSE @,
                           !.entered =
                               @ \/ length(lf.newPos) < AbsorptionRadius]
    IN  IF escaped(r, s.minR)
        THEN [moved EXCEPT !.outcome = "ESCAPED", !.pc = "composite"]
        ELSE IF loopContinues(s.i + 1)
        THEN [moved EXCEPT !.i = @ + 1]
        ELSE [moved EXCEPT !.i = @ + 1, !.outcome = "MAX_STEPS_REACHED",
                           !.pc = "composite"]

\* diskData.a of this iteration, 0 when the disk is not sampled; tex is the
\* disk texture at the crossing point
diskAlpha(s, f, lf, tex) ==
    IF SamplesDisk(s, lf)
    THEN sampleDisk(lf.crossPos, s.vel, countCrossing(s.diskCrossings), tex,
                    f.uDoppler, f.uRedshift)
    ELSE 0

\* one iteration of the integration loop, given r = length(pos), the
\* leapfrog values lf and the disk opacity alpha it computes
LoopBody(s0, r, lf, alpha) ==
    LET s  == [s0 EXCEPT !.minR = Min(@, r),
                         !.minPhotonDist = Min(@, Abs(r - PHOTON_SPHERE))]
    IN  IF r < AbsorptionRadius
        THEN [s EXCEPT !.transmission = 0, !.outcome = "ABSORBED",
                       !.pc = "composite"]
        ELSE IF s.transmission < SaturationThreshold
        THEN [s EXCEPT !.outcome = "SATURATED", !.pc = "composite"]
        ELSE IF /\ s.minR < 30 * PU
                /\ r > 50 * PU
                /\ dot(normalize(s.pos), s.vel) > (VU \div 5) * VU
        THEN [s EXCEPT !.outcome = "EARLY_ESCAPE", !.pc = "composite"]
        ELSE IF ~lf.crossed
        THEN Advance(s, lf, r)
        ELSE LET c     == [s EXCEPT !.diskCrossings = countCrossing(@)]
                 lit   == [c EXCEPT
                             !.diskLight = @ + Emitted(c.transmission, alpha,
                                                       c.minPhotonDist),
                             !.transmission = Attenuate(@, alpha,
                                                        c.minPhotonDist)]
             IN  IF ~SamplesDisk(s, lf) \/ alpha <= 1
                 THEN Advance(c, lf, r)
                 ELSE IF lit.transmission < SaturationThreshold
                 THEN [lit EXCEPT !.outcome = "SATURATED", !.pc = "composite",
                                  !.signChanges =
                                      IF crossedDisk(s.pos[2], lf.newPos[2])
                                      THEN @ + 1 ELSE @]
                 ELSE Advance(lit, lf, r)
---------------------------------------------------------------------------
(* Photon ring, glow and starfield compositor.                             *)
(*                                                                         *)
(* The animated modulations (sines of ringAngle and uTime) and the hashed  *)
(* starfield are inputs drawn from their ranges:                           *)
(*   ringMod = ringFlow * ringPulse  in [0.3, 1.0]                         *)
(*   glowMod = 0.8 + 0.2 sin(...)    in [0.6, 1.0]                         *)
(*   stars   = stars(vel, 1.0), the starfield before lensing, >= 0         *)
(***************************************************************************)

CompSamples ==
    { [ringMod |-> 300, glowMod |-> 600, stars |-> 0],
      [ringMod |-> 1000, glowMod |-> 1000, stars |-> 400] }

\* exp(-d * d * k), d in 1/PU, result in 1/1000
Gauss(d, k10) ==
    IF d * d >= 4000000 \div k10 THEN 0
    ELSE ExpNeg((d * d * k10) \div 400) \div 10

\* (ring0 + ring1 + ring2 + ring3 + ring4) * ringFlow * ringPulse
totalRing(minR, ringMod) ==
    LET ring0 == (Gauss(minR - (PHOTON_SPHERE * 105) \div 100, 40) * 4) \div 10
        ring1 == (Gauss(minR - PHOTON_SPHERE, 100) * 9) \div 10
        ring2 == (Gauss(minR - (PHOTON_SPHERE * 96) \div 100, 300) * 7) \div 10
        ring3 == (Gauss(minR - (PHOTON_SPHERE * 93) \div 100, 600) * 5) \div 10
        ring4 == (Gauss(minR - (PHOTON_SPHERE * 90) \div 100, 1000) * 4) \div 10
    IN  ((ring0 + ring1 + ring2 + ring3 + ring4) * ringMod) \div 1000

\* the starfield added whatever the transmission
starTermUnweighted(stars, lensAmp, transmission) == (stars * lensAmp) \div 1000

\* if (transmission > 0.01) col += stars(vel, lensAmp) * transmission
starTerm(stars, lensAmp, transmission) ==
    IF transmission > SaturationThreshold
    THEN (((stars * lensAmp) \div 1000) * transmission) \div TU
    ELSE 0

\* the post-loop additions to col, each in 1/1000
Compose(s, c) ==
    LET diskPlaneBoost == 1000 + ExpNeg((s.vel[2] * s.vel[2]) \div 5000) \div 20
        ring     == (((((totalRing(s.minR, c.ringMod) * s.transmission) \div TU)
                        * 15) \div 10) * diskPlaneBoost) \div 1000
        lensingGlow == (((Gauss(s.minPhotonDist, 5) * 3) \div 10) * c.glowMod)
                          \div 1000
        edgeGlow == (Gauss(s.minR - AbsorptionRadius, 20) * 8) \div 100
        lensAmp  == 1000 + 3 * Gauss(s.minPhotonDist, 10)
    IN  [s EXCEPT
           !.ringLight = ring,
           !.glowLight = (lensingGlow * s.transmission) \div TU,
           !.edgeLight = (edgeGlow * s.transmission) \div TU,
           !.starLight = starTerm(c.stars, lensAmp, s.transmission),
           !.pc = "done"]
---------------------------------------------------------------------------
(* GargantuaRenderer: camera controller and render loop.                   *)
(* Angles in 1/1000 radian, distance in 1/100, zoom in 1/1000, pointer     *)
(* coordinates in pixels, time in milliseconds.                            *)

ELEV_MAX == 1413           \* Math.PI * 0.45
DIST_MIN == 1000           \* 10
DIST_MAX == 10000          \* 100
SENSITIVITY == 5           \* 0.005 radian per pixel
Infinity == 2147483647     \* lastDist / 0 in IEEE arithmetic

CameraInit ==
    [ azimuth |-> 3142, elevation |-> 170, distance |-> 3500, zoom |-> 1800,
      targetAzimuth |-> 3142, targetElevation |-> 170,
      targetDistance |-> 3500, targetZoom |-> 1800 ]

MouseInit == [ isDown |-> FALSE, lastX |-> 0, lastY |-> 0, button |-> 0 ]

TouchInit == [ lastDist |-> 0, lastX |-> 0, lastY |-> 0 ]

SettingsInit == [ doppler |-> TRUE, redshift |-> TRUE ]

\* the elevation left unclamped
clampElevationOff(e) == e

\* only the upper distance limit applied
clampDistanceUpperOnly(d) == Min(DIST_MAX, d)

\* Math.max(-Math.PI * 0.45, Math.min(Math.PI * 0.45, e))
clampElevation(e) == Max(-ELEV_MAX, Min(ELEV_MAX, e))

\* Math.max(10, Math.min(100, d))
clampDistance(d) == Max(DIST_MIN, Min(DIST_MAX, d))

\* the azimuth moved by the size of dx, whatever its sign
orbitSignLost(cam, dx, dy) ==
    [cam EXCEPT !.targetAzimuth = @ - Abs(dx) * SENSITIVITY,
                !.targetElevation = clampElevation(@ + dy * SENSITIVITY)]

\* targetAzimuth -= dx * 0.005; targetElevation += dy * 0.005; clamp
orbit(cam, dx, dy) ==
    [cam EXCEPT !.targetAzimuth = @ - dx * SENSITIVITY,
                !.targetElevation = clampElevation(@ + dy * SENSITIVITY)]

\* targetDistance *= 1.0 + dy * 0.005; clamp
dragZoom(cam, dy) ==
    [cam EXCEPT !.targetDistance =
                    clampDistance(RDiv(@ * (1000 + dy * SENSITIVITY), 1000))]

\* the wheel driving the lens instead of the distance
wheelZoomLens(cam, deltaY) ==
    [cam EXCEPT !.targetZoom = RDiv(@ * (IF deltaY > 0 THEN 11 ELSE 9), 10)]

\* targetDistance *= delta (1.1 or 0.9); clamp
wheelZoom(cam, deltaY) ==
    [cam EXCEPT !.targetDistance =
                    clampDistance(RDiv(@ * (IF deltaY > 0 THEN 11 ELSE 9), 10))]

\* targetDistance *= lastDist / dist; clamp
pinchZoom(cam, lastDist, dist) ==
    [cam EXCEPT !.targetDistance =
                    clampDistance(IF dist = 0 THEN Infinity
                                  ELSE RDiv(@ * lastDist, dist))]

\* Math.sqrt(dx * dx + dy * dy) of two touch points
fingerDist(ts) ==
    sqrt((ts[1][1] - ts[2][1]) * (ts[1][1] - ts[2][1])
           + (ts[1][2] - ts[2][2]) * (ts[1][2] - ts[2][2]))

onMouseDown(button, x, y) ==
    /\ mouse' = [isDown |-> TRUE, button |-> button, lastX |-> x, lastY |-> y]
    /\ UNCHANGED <<camera, touch, settings, fps, gl, audio>>

onMouseMove(x, y) ==
    /\ IF ~mouse.isDown
       THEN UNCHANGED <<camera, mouse>>
       ELSE /\ camera' =
                  IF mouse.button = 0
                  THEN orbit(camera, x - mouse.lastX, y - mouse.lastY)
                  ELSE IF mouse.button = 2
                  THEN dragZoom(camera, y - mouse.lastY)
                  ELSE camera
            /\ mouse' = [mouse EXCEPT !.lastX = x, !.lastY = y]
    /\ UNCHANGED <<touch, settings, fps, gl, audio>>

onMouseUp ==
    /\ mouse' = [mouse EXCEPT !.isDown = FALSE]
    /\ UNCHANGED <<camera, touch, settings, fps, gl, audio>>

onWheel(deltaY) ==
    /\ camera' = wheelZoom(camera, deltaY)
    /\ UNCHANGED <<mouse, touch, settings, fps, gl, audio>>

\* ts: e.touches, one or two points
onTouchStart(ts) ==
    /\ touch' = IF Len(ts) = 1
                THEN [touch EXCEPT !.lastX = ts[1][1], !.lastY = ts[1][2]]
                ELSE IF Len(ts) = 2
                THEN [touch EXCEPT !.lastDist = fingerDist(ts)]
                ELSE touch
    /\ UNCHANGED <<camera, mouse, settings, fps, gl, audio>>

onTouchMove(ts) ==
    /\ IF Len(ts) = 1
       THEN /\ camera' = orbit(camera, ts[1][1] - touch.lastX,
                                       ts[1][2] - touch.lastY)
            /\ touch' = [touch EXCEPT !.lastX = ts[1][1], !.lastY = ts[1][2]]
       ELSE IF Len(ts) = 2
       THEN /\ camera' = IF touch.lastDist > 0
                         THEN pinchZoom(camera, touch.lastDist, fingerDist(ts))
                         ELSE camera
            /\ touch' = [touch EXCEPT !.lastDist = fingerDist(ts)]
       ELSE UNCHANGED <<camera, touch>>
    /\ UNCHANGED <<mouse, settings, fps, gl, audio>>

onTouchEnd ==
    /\ touch' = [touch EXCEPT !.lastDist = 0]
    /\ UNCHANGED <<camera, mouse, settings, fps, gl, audio>>

toggleSetting(key) ==
    /\ settings' = [settings EXCEPT ![key] = ~@]
    /\ UNCHANGED <<camera, mouse, touch, fps, gl, audio>>

\* the value carried past the target
smoothOvershoot(v, target) == v + RDiv((target - v) * 115, 100)

\* v += (target - v) * smoothing, smoothing = 0.15
smooth(v, target) == v + RDiv((target - v) * 15, 100)

updateCamera(cam) ==
    [cam EXCEPT !.azimuth = smooth(@, cam.targetAzimuth),
                !.elevation = smooth(@, cam.targetElevation),
                !.distance = smooth(@, cam.targetDistance),
                !.zoom = smooth(@, cam.targetZoom)]

\* the gl.uniform* calls of render()
uploadUniforms(cam, set, timestamp) ==
    [ time |-> timestamp, doppler |-> set.doppler, redshift |-> set.redshift,
      camAzimuth |-> cam.azimuth, camElevation |-> cam.elevation,
      camDistance |-> cam.distance, camZoom |-> cam.zoom ]

\* the FPS bookkeeping of render()
fpsUpdate(f, timestamp) ==
    IF timestamp - f.lastFpsTime > 1000
    THEN [frameCount |-> 0, lastFpsTime |-> timestamp,
          reported |-> f.frameCount + 1]
    ELSE [f EXCEPT !.frameCount = @ + 1]

\* the uniforms uploaded before the camera is smoothed
renderUploadFirst(timestamp) ==
    /\ fps' = fpsUpdate(fps, timestamp)
    /\ camera' = updateCamera(camera)
    /\ gl' = [ uniforms |-> uploadUniforms(camera, settings, timestamp),
               draws |-> gl.draws + 1,
               smoothings |-> gl.smoothings + 1 ]
    /\ audio' = audio
    /\ UNCHANGED <<mouse, touch, settings>>

\* render(timestamp): FPS, updateCamera, uniforms, drawArrays
render(timestamp) ==
    /\ fps' = fpsUpdate(fps, timestamp)
    /\ camera' = updateCamera(camera)
    /\ gl' = [ uniforms |-> uploadUniforms(camera', settings, timestamp),
               draws |-> gl.draws + 1,
               \* history: updateCamera calls made by render()
               smoothings |-> gl.smoothings + 1 ]
    \* render() contains no call of this.onDistanceUpdate
    /\ audio' = [audio EXCEPT !.distanceUpdates = @ + 0]
    /\ UNCHANGED <<mouse, touch, settings>>
---------------------------------------------------------------------------
(* Initial states.                                                         *)

\* main.js: renderer.onDistanceUpdate = d => audio.updateDistance(d);
\* distanceUpdates counts the calls the renderer makes of it
\* the five sound layers, in the order start() and the teardown go through
LayerOrder == <<"drone", "flow", "shimmer", "pulse", "void">>

LayerNames == { LayerOrder[k] : k \in 1..5 }

\* the teardown leaving the old nodes in place
keptNodes(old) ==
    [l \in LayerNames |-> IF old[l] = "started" THEN "stopped" ELSE old[l]]

\* this.nodes = {} followed by the five create calls: no source node of the
\* new set has been started
freshNodes(old) == [l \in LayerNames |-> "fresh"]

\* GargantuaAudio after the constructor and init().  Times are in tenths
\* of a second; target is the master gain's ramp target in 1/1000.
AudioInit ==
    [distanceUpdates |-> 0, isPlaying |-> FALSE, ctx |-> "suspended",
     now |-> 0, gen |-> 0, layers |-> [l \in LayerNames |-> "fresh"],
     timers |-> <<>>,
     resuming |-> 0, target |-> 0,
     \* history: calls made, start() bodies run, teardowns run, exceptions
     \* thrown out of start()
     calls |-> 0, started |-> 0, teardowns |-> 0, errors |-> 0,
     currentDistance |-> 3500,
     \* history: a stop() has begun its fade-out since the last start(),
     \* updateDistance calls made, a bit that flips at every toggle() and
     \* the last value toggle() returned
     fading |-> FALSE, updates |-> 0, click |-> FALSE, lastRet |-> "none"]

HistInit ==
    [events |-> 0, frames |-> 0, phase |-> "rest", legs |-> 0,
     mid |-> 0, idle |-> 0, startAz |-> 0, startEl |-> 0,
     from |-> <<0, 0>>, unclamped |-> TRUE,
     \* the positions the first finger and the mouse pointer last reported,
     \* and the last input event
     finger |-> <<0, 0>>, pointer |-> <<0, 0>>, op |-> "none"]

\* the document once main.js's DOMContentLoaded handler has run through
PageRunning ==
    [ phase |-> "running", cause |-> "ok", error |-> "", body |-> <<"canvas">>,
      listeners |-> "all", loop |-> TRUE ]

HostInit ==
    /\ page = PageRunning
    /\ camera = CameraInit
    /\ mouse = MouseInit
    /\ touch = TouchInit
    /\ settings = SettingsInit
    /\ fps = [frameCount |-> 0, lastFpsTime |-> 0, reported |-> 0]
    /\ gl = [uniforms |-> uploadUniforms(CameraInit, SettingsInit, 0),
             draws |-> 0, smoothings |-> 0]
    /\ audio = AudioInit
    /\ clock = 0
    /\ hist = HistInit

\* the centre pixel under the default camera
FragDefault ==
    CHOOSE f \in FragInputs :
        f.uv = <<0, 0>> /\ f.uDoppler /\ f.uRedshift /\ f.uCamDistance = 35 * PU

---------------------------------------------------------------------------
(* SpecRay: one invocation of the fragment shader's main().  The locals of *)
(* an iteration are bound one after the other, as the code assigns them.   *)

InitRay ==
    /\ \E f \in FragInputs :
       \E ro \in {rayOrigin(f)} :
       \E rd \in {rayDirection(f, ro)} :
          /\ frag = f
          /\ ray = RayInit(ro, rd)
          /\ twin = NoFrame
          /\ disk = DiskIdle
          /\ probe = ProbeIdle
    /\ HostInit

\* one iteration of the for loop
Integrate ==
    /\ ray.pc = "loop"
    /\ \E tex \in TexSamples :
       \E r \in {length(ray.pos)} :
       \E accel \in {blackHoleAccel(ray.pos)} :
       \E h \in {stepSize(r)} :
       \E velHalf \in {halfKick(ray.vel, accel, h)} :
       \E newPos \in {drift(ray.pos, velHalf, h)} :
       \E newAccel \in {blackHoleAccel(newPos)} :
       \E kicked \in {halfKick(velHalf, newAccel, h)} :
       \E newVel \in {normalize(kicked)} :
       \E crossPos \in {crossingPoint(ray.pos, newPos, ray.lastY)} :
       \E lf \in {Leapfrog(newPos, newVel, crossPos, ray.lastY)} :
       \E alpha \in {diskAlpha(ray, frag, lf, tex)} :
          ray' = LoopBody(ray, r, lf, alpha)
    /\ UNCHANGED <<frag, twin, disk, probe, hostVars>>

\* the code after the loop
Composite ==
    /\ ray.pc = "composite"
    /\ \E c \in CompSamples : ray' = Compose(ray, c)
    /\ UNCHANGED <<frag, twin, disk, probe, hostVars>>

NextRay == Integrate \/ Composite

SpecRay == InitRay /\ [][NextRay]_vars

---------------------------------------------------------------------------
(* Spec: the page's event loop. Input events and animation frames are      *)
(* tasks that run to completion one at a time.                             *)

MaxEvents == 3
MaxFrames == 2
FrameMs == 600

Points == { <<0, 0>>, <<100, 300>>, <<80, 240>> }
Buttons == { 0, 2 }
TouchLists ==
    { <<p>> : p \in Points } \cup { << <<0, 0>>, q >> : q \in Points }
WheelDeltas == { -100, 100 }
SettingKeys == { "doppler", "redshift" }

Init ==
    /\ \E ro \in {rayOrigin(FragDefault)} :
       \E rd \in {rayDirection(FragDefault, ro)} :
          /\ frag = FragDefault
          /\ ray = RayInit(ro, rd)
          /\ twin = NoFrame
          /\ disk = DiskIdle
          /\ probe = ProbeIdle
    /\ HostInit

Event ==
    /\ hist.events < MaxEvents
    /\ hist' = [hist EXCEPT !.events = @ + 1]
    /\ UNCHANGED <<clock, page, rayVars>>

MouseDown == \E b \in Buttons, p \in Points : onMouseDown(b, p[1], p[2]) /\ Event

MouseMove == \E p \in Points : onMouseMove(p[1], p[2]) /\ Event

MouseUp == onMouseUp /\ Event

Wheel == \E d \in WheelDeltas : onWheel(d) /\ Event

TouchStart == \E ts \in TouchLists : onTouchStart(ts) /\ Event

TouchMove == \E ts \in TouchLists : onTouchMove(ts) /\ Event

TouchEnd == onTouchEnd /\ Event

Toggle == \E k \in SettingKeys : toggleSetting(k) /\ Event

\* requestAnimationFrame callback: render(timestamp), then re-arm
Frame ==
    /\ hist.frames < MaxFrames
    /\ clock' = clock + FrameMs
    /\ render(clock')
    /\ hist' = [hist EXCEPT !.frames = @ + 1]
    /\ UNCHANGED <<page, rayVars>>

Next ==
    \/ MouseDown \/ MouseMove \/ MouseUp \/ Wheel
    \/ TouchStart \/ TouchMove \/ TouchEnd \/ Toggle
    \/ Frame

Spec == Init /\ [][Next]_vars
---------------------------------------------------------------------------
(* Properties of the ray integration loop (SpecRay).                       *)

\* C1: transmission never increases from one step to the next and stays
\* within [0, 1] from its initial value 1 on.
C1_TransmissionMonotone ==
    /\ ray.transmission = TU
    /\ [](ray.transmission >= 0 /\ ray.transmission <= TU)
    /\ [][ray'.transmission <= ray.transmission]_vars

\* a ray still being integrated whose transmission the disk has reduced
C1_Witness ==
    /\ ray.pc = "loop"
    /\ ray.diskCrossings > 0
    /\ ray.transmission > 0
    /\ ray.transmission < TU

\* C2: diskCrossings equals the number of steps whose start and end
\* vertical coordinates have opposite signs.
C2_CrossingsAreSignChanges == ray.diskCrossings = ray.signChanges

\* C3: diskCrossings starts at 0, never decreases, and grows by at most one
\* per integration step.
C3_CrossingsStepByOne ==
    /\ ray.diskCrossings = 0
    /\ [][\/ ray'.diskCrossings = ray.diskCrossings
          \/ ray'.diskCrossings = ray.diskCrossings + 1]_vars

\* a ray that has been counted crossing the disk plane more than once
C3_Witness == ray.pc = "loop" /\ ray.diskCrossings >= 2 /\ ray.steps >= 2

\* C4: a ray whose position was ever inside the absorption radius ends with
\* transmission 0 and receives no star, ring or glow light.
C4_EnteredRayIsBlack ==
    (ray.pc = "done" /\ ray.entered) =>
        /\ ray.transmission = 0
        /\ ray.starLight = 0
        /\ ray.ringLight = 0
        /\ ray.glowLight = 0

Terminal == {"ABSORBED", "SATURATED", "ESCAPED", "EARLY_ESCAPE",
             "MAX_STEPS_REACHED"}

\* C5: the loop runs at most MAX_STEPS iterations, ends in exactly one
\* terminal outcome, and nothing is integrated after that outcome.
C5_LoopTerminates ==
    /\ [](/\ ray.i <= MAX_STEPS
          /\ ray.steps <= MAX_STEPS
          /\ ray.outcome \in Terminal \cup {"TRAVELING"}
          /\ (ray.pc = "loop") <=> (ray.outcome = "TRAVELING")
          /\ (ray.outcome = "MAX_STEPS_REACHED") => (ray.i = MAX_STEPS))
    /\ [][ray.outcome \in Terminal =>
            /\ ray'.outcome = ray.outcome
            /\ ray'.i = ray.i
            /\ ray'.steps = ray.steps
            /\ ray'.pos = ray.pos
            /\ ray'.vel = ray.vel
            /\ ray'.diskCrossings = ray.diskCrossings]_vars

\* a composited ray that used up all MAX_STEPS iterations
C5_Witness ==
    /\ ray.pc = "done"
    /\ ray.outcome = "MAX_STEPS_REACHED"
    /\ ray.steps = MAX_STEPS
---------------------------------------------------------------------------
(* SpecOrbit: a left-button drag from a point to another and back, with    *)
(* frames in between, then idle frames; repeated from the pose reached.    *)

MaxLegs == 2
MaxMidFrames == 2
SettleFrames == 45
StallGap == 3      \* rounding halts the fixed-point smoothing this close

OrbitPress ==
    /\ hist.phase = "rest"
    /\ hist.legs < MaxLegs
    /\ \E p \in Points :
          /\ onMouseDown(0, p[1], p[2])
          /\ hist' = [hist EXCEPT !.phase = "pressed", !.legs = @ + 1,
                                  !.mid = 0, !.idle = 0, !.from = p,
                                  !.startAz = camera.targetAzimuth,
                                  !.startEl = camera.targetElevation]
    /\ UNCHANGED <<clock, page, rayVars>>

OrbitOut ==
    /\ hist.phase = "pressed"
    /\ \E q \in Points \ {hist.from} :
          /\ onMouseMove(q[1], q[2])
          /\ hist' = [hist EXCEPT
                        !.phase = "out", !.mid = 0,
                        !.unclamped =
                            Abs(camera.targetElevation
                                  + (q[2] - hist.from[2]) * SENSITIVITY)
                               <= ELEV_MAX]
    /\ UNCHANGED <<clock, page, rayVars>>

OrbitBack ==
    /\ hist.phase = "out"
    /\ onMouseMove(hist.from[1], hist.from[2])
    /\ hist' = [hist EXCEPT !.phase = "back", !.idle = 0]
    /\ UNCHANGED <<clock, page, rayVars>>

OrbitRelease ==
    /\ hist.phase = "back"
    /\ hist.idle >= SettleFrames
    /\ onMouseUp
    /\ hist' = [hist EXCEPT !.phase = "rest"]
    /\ UNCHANGED <<clock, page, rayVars>>

OrbitFrame ==
    /\ \/ /\ hist.phase \in {"pressed", "out"}
          /\ hist.mid < MaxMidFrames
          /\ hist' = [hist EXCEPT !.mid = @ + 1, !.frames = @ + 1]
       \/ /\ hist.phase = "back"
          /\ hist.idle < SettleFrames
          /\ hist' = [hist EXCEPT !.idle = @ + 1, !.frames = @ + 1]
    /\ clock' = clock + FrameMs
    /\ render(clock')
    /\ UNCHANGED <<page, rayVars>>

NextOrbit ==
    OrbitPress \/ OrbitOut \/ OrbitBack \/ OrbitRelease \/ OrbitFrame

SpecOrbit == Init /\ [][NextOrbit]_vars

---------------------------------------------------------------------------
(* Properties of the camera controller and the render loop.                *)

\* C6: targetElevation, the smoothed elevation and the elevation uploaded
\* to the shader stay within [-0.45 pi, +0.45 pi].
C6_ElevationBounded ==
    /\ Abs(camera.targetElevation) <= ELEV_MAX
    /\ Abs(camera.elevation) <= ELEV_MAX
    /\ Abs(gl.uniforms.camElevation) <= ELEV_MAX

\* a drag that asked for more than the limit, and a frame drawn after it
C6_Witness ==
    /\ camera.targetElevation = ELEV_MAX
    /\ gl.draws > 0
    /\ gl.uniforms.camElevation > CameraInit.elevation

\* C7: targetDistance, the smoothed distance and the distance uploaded to
\* the shader stay within [10, 100], also after a right-drag with a negative
\* factor and a pinch with finger separation 0.
C7_DistanceBounded ==
    /\ camera.targetDistance >= DIST_MIN /\ camera.targetDistance <= DIST_MAX
    /\ camera.distance >= DIST_MIN /\ camera.distance <= DIST_MAX
    /\ gl.uniforms.camDistance >= DIST_MIN
    /\ gl.uniforms.camDistance <= DIST_MAX

\* two fingers pinched together (separation 0) took the target to 100, and
\* a frame followed
C7_Witness ==
    /\ ~mouse.isDown
    /\ touch.lastDist = 0
    /\ camera.targetDistance = DIST_MAX
    /\ gl.draws > 0
    /\ gl.uniforms.camDistance > CameraInit.distance

C9_DistancePushedEachFrame == audio.distanceUpdates = gl.draws

\* C10: each frame smooths the camera exactly once, uploads the smoothed
\* pose, the toggles and the time, and draws; the smoothed pose and the
\* uploaded uniforms change in no other step.
C10_SmoothUploadDraw ==
    /\ [](gl.smoothings = gl.draws)
    /\ [][IF gl'.draws # gl.draws
          THEN /\ gl'.draws = gl.draws + 1
               /\ gl'.smoothings = gl.smoothings + 1
               /\ camera' = updateCamera(camera)
               /\ settings' = settings
               /\ gl'.uniforms = uploadUniforms(camera', settings', clock')
          ELSE /\ gl' = gl
               /\ camera'.azimuth = camera.azimuth
               /\ camera'.elevation = camera.elevation
               /\ camera'.distance = camera.distance
               /\ camera'.zoom = camera.zoom]_vars

\* a frame drawn while the camera is moving and after a toggle was switched
C10_Witness ==
    /\ gl.draws >= 2
    /\ ~gl.uniforms.doppler
    /\ gl.uniforms.camElevation # camera.targetElevation
    /\ gl.uniforms.camElevation # CameraInit.elevation
---------------------------------------------------------------------------
(* SpecBoot: main.js's DOMContentLoaded handler, then the page's event     *)
(* loop as far as the handler has armed it.                                *)

\* how renderer.init() and audio.init() can end
BootOutcomes ==
    { "ok", "no_webgl", "fetch_failed", "compile_failed", "link_failed",
      "audio_failed" }

\* error.message of what init throws
errorMessage(outcome) ==
    CASE outcome = "no_webgl"       -> "WebGL not supported"
      [] outcome = "fetch_failed"   -> "Failed to fetch"
      [] outcome = "compile_failed" -> "Shader compilation failed: info"
      [] outcome = "link_failed"    -> "Shader program link failed: log"
      [] outcome = "audio_failed"   -> "AudioContext is not a constructor"
      [] OTHER                      -> ""

\* the loop armed whether or not init threw
loopStartedAlways(outcome) == TRUE

\* renderer.startLoop() is reached only when nothing before it threw
loopStarted(outcome) == outcome = "ok"

\* setupControls() has run when the shaders loaded; replacing the body takes
\* the canvas away and leaves the listeners on window
listenersAfter(outcome) ==
    IF outcome = "ok" THEN "all"
    ELSE IF outcome = "audio_failed" THEN "window"
    ELSE "none"

PageLoading ==
    [ phase |-> "loading", cause |-> "", error |-> "", body |-> <<"canvas">>,
      listeners |-> "none", loop |-> FALSE ]

InitBoot ==
    /\ \E ro \in {rayOrigin(FragDefault)} :
       \E rd \in {rayDirection(FragDefault, ro)} :
          /\ frag = FragDefault
          /\ ray = RayInit(ro, rd)
          /\ twin = NoFrame
          /\ disk = DiskIdle
          /\ probe = ProbeIdle
    /\ page = PageLoading
    /\ camera = CameraInit
    /\ mouse = MouseInit
    /\ touch = TouchInit
    /\ settings = SettingsInit
    /\ fps = [frameCount |-> 0, lastFpsTime |-> 0, reported |-> 0]
    /\ gl = [uniforms |-> uploadUniforms(CameraInit, SettingsInit, 0),
             draws |-> 0, smoothings |-> 0]
    /\ audio = AudioInit
    /\ clock = 0
    /\ hist = HistInit

\* document.addEventListener('DOMContentLoaded', async () => { try ... catch })
DOMContentLoaded ==
    /\ page.phase = "loading"
    /\ \E outcome \in BootOutcomes :
          page' = [ phase |-> IF outcome = "ok" THEN "running" ELSE "failed",
                    cause |-> outcome,
                    error |-> errorMessage(outcome),
                    body |-> IF outcome = "ok" THEN <<"canvas">>
                             ELSE <<"Error: ", errorMessage(outcome)>>,
                    listeners |-> listenersAfter(outcome),
                    loop |-> loopStarted(outcome) ]
    /\ UNCHANGED <<camera, mouse, touch, settings, fps, gl, audio, clock, hist,
                   rayVars>>

\* an animation frame, once requestAnimationFrame is armed
BootFrame == page.loop /\ Frame

\* input on the canvas and the buttons
BootInput ==
    /\ page.listeners = "all"
    /\ (MouseDown \/ Wheel \/ TouchStart \/ TouchMove \/ TouchEnd \/ Toggle)

\* input on window
BootWindowInput ==
    /\ page.listeners \in {"all", "window"}
    /\ (MouseMove \/ MouseUp)

NextBoot == DOMContentLoaded \/ BootFrame \/ BootInput \/ BootWindowInput

SpecBoot == InitBoot /\ [][NextBoot]_vars

\* C11: when initialization fails the render loop is never started, no
\* frame is ever drawn, and the page body is the error message with the
\* failure's description.
C11_FailedInitShowsError ==
    /\ [](page.phase = "failed" =>
             /\ ~page.loop
             /\ gl.draws = 0
             /\ page.cause \in BootOutcomes \ {"ok"}
             /\ page.error # ""
             /\ page.body = <<"Error: ", errorMessage(page.cause)>>)
    /\ [][page.phase = "failed" => (gl' = gl /\ page' = page)]_vars

\* a failed shader compilation, reported on the page
C11_Witness ==
    /\ page.phase = "failed"
    /\ page.cause = "compile_failed"
    /\ page.body = <<"Error: ", "Shader compilation failed: info">>

---------------------------------------------------------------------------
(* sampleDisk as a function: a point of the disk plane, a texture value    *)
(* and the two toggles are fixed, and the sampler is called for different  *)
(* ray directions and crossing numbers, twice; both results are kept.      *)

MaxCrossingNum == 3

\* Points of the plane y = 0 at cylindrical radii 2.8, 2.85, 3, 7.5, 15.3,
\* 15.305 and 15.75: both sides of 0.95 DISK_INNER = 2.85 and of
\* 1.02 DISK_OUTER = 15.3, and 1.05 DISK_OUTER.
DiskPoints ==
    { <<560, 0, 0>>, <<570, 0, 0>>, <<600, 0, 0>>, <<900, 0, 1200>>,
      <<3060, 0, 0>>, <<3061, 0, 0>>, <<3150, 0, 0>> }

\* Unit ray directions: along the orbital velocity at the points of the x
\* axis, against it, and steeply down onto the plane.
RayDirs == { <<0, 0, VU>>, <<0, 0, -VU>>, <<6000, -8000, 0>> }

InitDisk ==
    /\ \E ro \in {rayOrigin(FragDefault)} :
       \E rd \in {rayDirection(FragDefault, ro)} :
          /\ frag = FragDefault
          /\ ray = RayInit(ro, rd)
          /\ twin = NoFrame
    /\ \E p \in DiskPoints, tex \in TexSamples, d \in BOOLEAN, g \in BOOLEAN :
          disk = [p |-> p, tex |-> tex, uDoppler |-> d, uRedshift |-> g,
                  cur |-> NoSample, prev |-> NoSample]
    /\ probe = ProbeIdle
    /\ HostInit

\* vec4 s = sampleDisk(p, rayDir, time, crossingNum)
SampleDisk ==
    /\ disk.prev = NoSample
    /\ \E rayDir \in RayDirs, crossingNum \in 0..MaxCrossingNum :
       \E alpha \in {sampleDisk(disk.p, rayDir, crossingNum, disk.tex,
                                disk.uDoppler, disk.uRedshift)} :
       \E emission \in {diskEmission(disk.p, rayDir, crossingNum, disk.tex,
                                     disk.uDoppler, disk.uRedshift)} :
          disk' = [disk EXCEPT
                     !.prev = disk.cur,
                     !.cur = [rayDir |-> rayDir, crossingNum |-> crossingNum,
                              alpha |-> alpha, emission |-> emission]]
    /\ UNCHANGED <<ray, frag, twin, probe, hostVars>>

NextDisk == SampleDisk

SpecDisk == InitDisk /\ [][NextDisk]_vars

C13_DirectionIrrelevantWhenOff ==
    (/\ ~disk.uDoppler
     /\ ~disk.uRedshift
     /\ disk.cur.crossingNum >= 0
     /\ disk.cur.crossingNum = disk.prev.crossingNum)
        => /\ disk.cur.alpha = disk.prev.alpha
           /\ disk.cur.emission = disk.prev.emission

C13_Witness ==
    /\ ~disk.uDoppler
    /\ ~disk.uRedshift
    /\ disk.cur.crossingNum = disk.prev.crossingNum
    /\ disk.cur.crossingNum = 1
    /\ disk.cur.rayDir = <<0, 0, VU>>
    /\ disk.prev.rayDir = <<0, 0, -VU>>
    /\ disk.cur.alpha > 0
    /\ disk.cur.alpha = disk.prev.alpha
    /\ disk.cur.emission = disk.prev.emission

\* cylindrical radius of the sample point
sampleRadius == length(<<disk.p[1], 0, disk.p[3]>>)

---------------------------------------------------------------------------
(* Two frames: main() runs for the same pixel under the same uniforms but  *)
(* a later uTime.  What depends on uTime (the disk texture, the ring and   *)
(* glow modulations) is drawn anew; the closest approaches the first frame *)
(* found are kept for comparison.                                          *)

\* pixels at the default pose with both toggles on: the centre, a pixel
\* below it and the pixel uv = (-0.16, -0.02) beside the shadow
FrameInputs ==
    { [FragDefault EXCEPT !.uv = p] :
         p \in { <<0, 0>>, <<0, -1700>>, <<-1600, -200>> } }

InitFrames ==
    /\ \E f \in FrameInputs :
       \E ro \in {rayOrigin(f)} :
       \E rd \in {rayDirection(f, ro)} :
          /\ frag = f
          /\ ray = RayInit(ro, rd)
          /\ twin = NoFrame
          /\ disk = DiskIdle
          /\ probe = ProbeIdle
    /\ HostInit

\* the next requestAnimationFrame callback draws the same pixel again
NextFrame ==
    /\ ray.pc = "done"
    /\ ~twin.drawn
    /\ \E ro \in {rayOrigin(frag)} :
       \E rd \in {rayDirection(frag, ro)} :
          ray' = RayInit(ro, rd)
    /\ twin' = [twin EXCEPT !.drawn = TRUE, !.outcome = ray.outcome,
                             !.minR = ray.minR,
                             !.minPhotonDist = ray.minPhotonDist]
    /\ UNCHANGED <<frag, disk, probe, hostVars>>

NextFrames == Integrate \/ Composite \/ NextFrame

SpecFrames == InitFrames /\ [][NextFrames]_vars

\* C15: two frames that differ only in elapsed time leave the same closest
\* approach minR and the same minPhotonDist for every pixel.
C15_RingGeometryTimeless ==
    (twin.drawn /\ ray.pc = "done")
        => /\ ray.minR = twin.minR
           /\ ray.minPhotonDist = twin.minPhotonDist

---------------------------------------------------------------------------
(* The same invocation twice: main() runs two times for one pixel under    *)
(* the same uniforms, uTime included.  The texture and the modulations are *)
(* then the same functions of position and time in both runs: they are     *)
(* built on hash3, and what hash3 gives selects the sample.                 *)

\* uTime, in milliseconds
Times == { 0, 1000, 2500 }

\* hash3(p), for p in 1/1000, in 1/1000:
\*   p = fract(p * vec3(0.1031, 0.1030, 0.0973));
\*   p += dot(p, p.yxz + 33.33);  return fract((p.x + p.y) * p.z);
hash3(p) ==
    LET x == ((p[1] * 1031) \div 10000) % 1000
        y == ((p[2] * 1030) \div 10000) % 1000
        z == ((p[3] * 973) \div 10000) % 1000
        d == (x * (y + 33330) + y * (x + 33330) + z * (z + 33330)) \div 1000
        a == x + d + y + d
        b == z + d
    IN  ((((a \div 1000) * b) % 1000) + (((a % 1000) * b) \div 1000)) % 1000

\* the texture sample at the point p and the time uTime
texture(uTime, p) ==
    LET n == hash3(<<5 * p[1], 5 * p[3], uTime>>)
    IN  CHOOSE t \in TexSamples :
            t.mod = IF n < 333 THEN 170 ELSE IF n < 667 THEN 450 ELSE 980

\* the ring and glow modulations and the starfield for a final direction
modulation(uTime, vel) ==
    LET n == hash3(<<vel[1] \div 10, vel[3] \div 10, uTime>>)
    IN  CHOOSE c \in CompSamples : c.ringMod = IF n < 500 THEN 300 ELSE 1000

\* every local of main() keeps what the previous invocation left in it
\* for the crossing count
staleLocals(s, ro, rd) ==
    [RayInit(ro, rd) EXCEPT !.diskCrossings = s.diskCrossings]

\* main() initialises every local it reads: nothing of the invocation
\* before (its locals s) is visible
freshLocals(s, ro, rd) == RayInit(ro, rd)

\* gl_FragColor, as the terms it is the sum of
fragColor(s) ==
    <<s.outcome, s.transmission, s.diskLight, s.ringLight, s.glowLight,
      s.edgeLight, s.starLight>>

InitTwice ==
    /\ \E f \in FrameInputs, t \in Times :
       \E ro \in {rayOrigin(f)} :
       \E rd \in {rayDirection(f, ro)} :
          /\ frag = f
          /\ ray = RayInit(ro, rd)
          /\ twin = [NoFrame EXCEPT !.uTime = t]
          /\ disk = DiskIdle
          /\ probe = ProbeIdle
    /\ HostInit

\* one iteration of the for loop, the texture read at the crossing point
IntegrateAt ==
    /\ ray.pc = "loop"
    /\ \E r \in {length(ray.pos)} :
       \E accel \in {blackHoleAccel(ray.pos)} :
       \E h \in {stepSize(r)} :
       \E velHalf \in {halfKick(ray.vel, accel, h)} :
       \E newPos \in {drift(ray.pos, velHalf, h)} :
       \E newAccel \in {blackHoleAccel(newPos)} :
       \E kicked \in {halfKick(velHalf, newAccel, h)} :
       \E newVel \in {normalize(kicked)} :
       \E crossPos \in {crossingPoint(ray.pos, newPos, ray.lastY)} :
       \E lf \in {Leapfrog(newPos, newVel, crossPos, ray.lastY)} :
       \E tex \in {texture(twin.uTime, crossPos)} :
       \E alpha \in {diskAlpha(ray, frag, lf, tex)} :
          ray' = LoopBody(ray, r, lf, alpha)
    /\ UNCHANGED <<frag, twin, disk, probe, hostVars>>

\* the code after the loop
CompositeAt ==
    /\ ray.pc = "composite"
    /\ ray' = Compose(ray, modulation(twin.uTime, ray.vel))
    /\ UNCHANGED <<frag, twin, disk, probe, hostVars>>

\* the same pixel is drawn again under the same uniforms
RunAgain ==
    /\ ray.pc = "done"
    /\ ~twin.drawn
    /\ \E ro \in {rayOrigin(frag)} :
       \E rd \in {rayDirection(frag, ro)} :
          ray' = freshLocals(ray, ro, rd)
    /\ twin' = [twin EXCEPT !.drawn = TRUE, !.outcome = ray.outcome,
                             !.minR = ray.minR,
                             !.minPhotonDist = ray.minPhotonDist,
                             !.col = fragColor(ray)]
    /\ UNCHANGED <<frag, disk, probe, hostVars>>

NextTwice == IntegrateAt \/ CompositeAt \/ RunAgain

SpecTwice == InitTwice /\ [][NextTwice]_vars

---------------------------------------------------------------------------
(* blackHoleAccel and the adaptive step as functions: the start of one     *)
(* leapfrog step is computed at a chosen position and velocity, with the   *)
(* current shader's rules and with the other variants' rules, twice; both  *)
(* results are kept.                                                       *)

\* radii 0, 0.05, 0.095, 0.1, 0.3, 1.5, 3, 3.25, 3.3, 4, 5, 6, 8, 10, 12, 15,
\* 20, 35, 40, 41, 60 and 65
ProbePositions ==
    { <<0, 0, 0>>, <<10, 0, 0>>, <<0, 19, 0>>, <<20, 0, 0>>, <<60, 0, 0>>,
      <<0, 0, 300>>, <<0, 0, 600>>, <<650, 0, 0>>, <<0, -660, 0>>,
      <<0, 800, 0>>, <<600, 0, 800>>, <<0, 1200, 0>>, <<1600, 0, 0>>,
      <<-2000, 0, 0>>, <<2400, 0, 0>>, <<0, 0, -3000>>, <<4000, 0, 0>>,
      <<0, 7000, 0>>, <<8000, 0, 0>>, <<8200, 0, 0>>, <<0, 0, 12000>>,
      <<0, 0, 13000>> }

ProbeVels == { <<-VU, 0, 0>>, <<0, VU, 0>> }

\* beyond this radius (15) the acceleration is below the model's resolution
ResolvedRadius == 3000

InitProbe ==
    /\ \E ro \in {rayOrigin(FragDefault)} :
       \E rd \in {rayDirection(FragDefault, ro)} :
          /\ frag = FragDefault
          /\ ray = RayInit(ro, rd)
          /\ twin = NoFrame
          /\ disk = DiskIdle
    /\ \E d \in {25 * PU, 100 * PU} :
          probe = [uCamDistance |-> d, cur |-> NoProbe, prev |-> NoProbe]
    /\ HostInit

\* accel = blackHoleAccel(pos); h; velHalf; newPos;
\* newAccel = blackHoleAccel(newPos)
ProbeAt ==
    /\ probe.prev = NoProbe
    /\ \E pos \in ProbePositions, vel \in ProbeVels :
       \E r \in {length(pos)} :
       \E accel \in {blackHoleAccel(pos)} :
       \E h \in {stepSize(r)} :
       \E velHalf \in {halfKick(vel, accel, h)} :
       \E newPos \in {drift(pos, velHalf, h)} :
       \E newAccel \in {blackHoleAccel(newPos)} :
          probe' = [probe EXCEPT
                      !.prev = probe.cur,
                      !.cur = [pos |-> pos, vel |-> vel, r |-> r,
                               accel |-> accel,
                               accelOld |-> blackHoleAccelPhoton(pos),
                               h |-> h, hOld |-> stepSizeOld(r),
                               hZoomed |-> stepSizeZoomed(r, probe.uCamDistance),
                               newPos |-> newPos, newAccel |-> newAccel]]
    /\ UNCHANGED <<ray, frag, twin, disk, hostVars>>

NextProbe == ProbeAt

SpecProbe == InitProbe /\ [][NextProbe]_vars

\* C17: at every position with |pos| >= 0.1 the acceleration has a dot
\* product <= 0 with the position, and of two radii 3 <= r1 < r2 the
\* acceleration is larger at r1 (strictly, where the model resolves it),
\* in the current and in the older shader.
C17_GravityAttractsAndDecays ==
    /\ probe.cur.r >= PU \div 10
          => /\ dot(probe.cur.accel, probe.cur.pos) <= 0
             /\ dot(probe.cur.accelOld, probe.cur.pos) <= 0
    /\ (3 * PU <= probe.prev.r /\ probe.prev.r < probe.cur.r)
          => /\ length(probe.prev.accel) >= length(probe.cur.accel)
             /\ length(probe.prev.accelOld) >= length(probe.cur.accelOld)
    /\ (3 * PU <= probe.prev.r /\ probe.prev.r < probe.cur.r
           /\ probe.cur.r <= ResolvedRadius)
          => /\ length(probe.prev.accel) > length(probe.cur.accel)
             /\ length(probe.prev.accelOld) > length(probe.cur.accelOld)

C17_Witness ==
    /\ probe.prev.r = 3 * PU
    /\ probe.cur.r = 4 * PU
    /\ dot(probe.cur.accel, probe.cur.pos) < 0
    /\ dot(probe.cur.accelOld, probe.cur.pos) < 0
    /\ length(probe.prev.accel) > length(probe.cur.accel)
    /\ length(probe.prev.accelOld) > length(probe.cur.accelOld)

\* C18: for |pos| < 0.1, the origin included, blackHoleAccel returns the
\* zero vector, for the current position of a leapfrog step and for its new
\* position alike; the quotient by r is on the other branch.
C18_NoPullInsideEpsilon ==
    /\ (0 <= probe.cur.r /\ probe.cur.r < PU \div 10)
          => /\ probe.cur.accel = <<0, 0, 0>>
             /\ probe.cur.accelOld = <<0, 0, 0>>
    /\ (0 <= probe.cur.r /\ length(probe.cur.newPos) < PU \div 10)
          => probe.cur.newAccel = <<0, 0, 0>>

C18_Witness ==
    /\ probe.prev.r = 0
    /\ probe.prev.accel = <<0, 0, 0>>
    /\ length(probe.prev.newPos) < PU \div 10
    /\ probe.prev.newAccel = <<0, 0, 0>>
    /\ probe.cur.r >= PU \div 10
    /\ probe.cur.accel # <<0, 0, 0>>
    /\ length(probe.cur.newPos) < PU \div 10
    /\ probe.cur.newAccel = <<0, 0, 0>>

\* C20: of two radii 3 <= r1 <= r2 the step size chosen at r1 is at most
\* the one chosen at r2, for the current shader, the older shader and the
\* planned camera-dependent base step at a fixed camera distance.
C20_StepSizeMonotone ==
    (3 * PU <= probe.prev.r /\ probe.prev.r <= probe.cur.r)
        => /\ probe.prev.h <= probe.cur.h
           /\ probe.prev.hOld <= probe.cur.hOld
           /\ probe.prev.hZoomed <= probe.cur.hZoomed

C20_Witness ==
    /\ probe.prev.r = 3 * PU
    /\ probe.cur.r = 65 * PU
    /\ probe.prev.h < probe.cur.h
    /\ probe.prev.hOld < probe.cur.hOld
    /\ probe.prev.hZoomed < probe.cur.hZoomed

---------------------------------------------------------------------------
(* SpecAudio: GargantuaAudio's playback control.  Calls of start() and     *)
(* stop(), the continuation of start() after "await ctx.resume()" and the  *)
(* timer callbacks are tasks that run to completion; timers fire in the    *)
(* order of their due times.                                               *)

MaxCalls == 5
MaxAudioTime == 50
PassStep == 10
MaxClicks == 4
MaxUpdates == 1
Distances == { 1000, 10000 }           \* camera distances, 1/100

FADE_TICKS == 21           \* fadeDuration * 1000 + 100 ms
PULSE_TICKS == 25          \* pulseInterval * 1000 ms

otherVars ==
    <<ray, frag, twin, disk, probe, camera, mouse, touch, settings, fps, gl,
      page, clock, hist>>

InitAudio ==
    /\ \E ro \in {rayOrigin(FragDefault)} :
       \E rd \in {rayDirection(FragDefault, ro)} :
          /\ frag = FragDefault
          /\ ray = RayInit(ro, rd)
          /\ twin = NoFrame
          /\ disk = DiskIdle
          /\ probe = ProbeIdle
    /\ page = PageRunning
    /\ camera = CameraInit
    /\ mouse = MouseInit
    /\ touch = TouchInit
    /\ settings = SettingsInit
    /\ fps = [frameCount |-> 0, lastFpsTime |-> 0, reported |-> 0]
    /\ gl = [uniforms |-> uploadUniforms(CameraInit, SettingsInit, 0),
             draws |-> 0, smoothings |-> 0]
    /\ clock = 0
    /\ hist = HistInit
    /\ \E c \in {"suspended", "running"} : audio = [AudioInit EXCEPT !.ctx = c]

\* setTimeout(callback, delay): the timer list is kept in firing order
setTimeout(timers, t) ==
    LET NotLater(x) == x.due <= t.due
        Later(x)    == x.due > t.due
    IN  SelectSeq(timers, NotLater) \o <<t>> \o SelectSeq(timers, Later)

\* the first layer, in order, whose source nodes were already started (6 if
\* none): its osc.start() throws InvalidStateError
firstStarted(layers) ==
    IF \A k \in 1..5 : layers[LayerOrder[k]] = "fresh" THEN 6
    ELSE CHOOSE k \in 1..5 :
            /\ layers[LayerOrder[k]] # "fresh"
            /\ \A j \in 1..(k - 1) : layers[LayerOrder[j]] = "fresh"

\* start() from "this.isPlaying = true" on
startBody(a) ==
    LET k == firstStarted(a.layers)
        begun == [l \in LayerNames |->
                    IF \E j \in 1..(k - 1) : LayerOrder[j] = l
                    THEN "started" ELSE a.layers[l]]
    IN  IF k = 6
        THEN [a EXCEPT !.isPlaying = TRUE,
                       !.fading = FALSE,
                       !.layers = begun,
                       !.timers = setTimeout(@, [kind |-> "pulse",
                                                 due |-> a.now + PULSE_TICKS,
                                                 gen |-> a.gen]),
                       !.target = 700,
                       !.started = @ + 1]
        ELSE [a EXCEPT !.isPlaying = TRUE,
                       !.layers = begun,
                       !.started = @ + 1,
                       !.errors = @ + 1]

\* start() up to "await this.ctx.resume()", or to its end
start(a) ==
    IF a.isPlaying THEN a
    ELSE IF a.ctx = "suspended" THEN [a EXCEPT !.resuming = @ + 1]
    ELSE startBody(a)

\* stop(): the fade-out and the timer of the teardown
stop(a) ==
    IF ~a.isPlaying THEN a
    ELSE [a EXCEPT !.target = 0,
                   !.fading = TRUE,
                   !.timers = setTimeout(@, [kind |-> "teardown",
                                             due |-> a.now + FADE_TICKS,
                                             gen |-> a.gen])]

\* toggle()
toggle(a) ==
    IF a.isPlaying
    THEN [stop(a) EXCEPT !.click = ~@, !.lastRet = "false"]
    ELSE [start(a) EXCEPT !.click = ~@, !.lastRet = "true"]

\* btn.classList.toggle('on', isPlaying) with the value toggle() returned
soundButton(a) ==
    IF a.lastRet = "none" THEN "unset"
    ELSE IF a.lastRet = "true" THEN "on" ELSE "off"

\* 0.5 + proximity * 0.35 in 1/1000, proximity = 1 - clamp01((d - 20) / 60)
targetVolume(distance) ==
    500 + (35 * (1000 - clamp((distance - 2000) \div 6, 0, 1000))) \div 100

\* updateDistance(distance)
updateDistance(a, distance) ==
    IF ~a.isPlaying THEN a
    ELSE [a EXCEPT !.currentDistance = distance,
                   !.target = targetVolume(distance)]

\* start()
AudioStart ==
    /\ audio.calls < MaxCalls
    /\ audio' = start([audio EXCEPT !.calls = @ + 1])
    /\ UNCHANGED otherVars

\* the promise of ctx.resume() settles and start() goes on
AudioResumed ==
    /\ audio.resuming > 0
    /\ audio' = startBody([audio EXCEPT !.resuming = @ - 1,
                                        !.ctx = "running"])
    /\ UNCHANGED otherVars

\* stop()
AudioStop ==
    /\ audio.calls < MaxCalls
    /\ audio' = stop([audio EXCEPT !.calls = @ + 1])
    /\ UNCHANGED otherVars

\* a click on the sound button
AudioToggle ==
    /\ audio.calls < MaxClicks
    /\ audio' = toggle([audio EXCEPT !.calls = @ + 1])
    /\ UNCHANGED otherVars

\* updateDistance called with a camera distance
AudioUpdateDistance ==
    /\ audio.updates < MaxUpdates
    /\ \E d \in Distances :
          audio' = updateDistance([audio EXCEPT !.updates = @ + 1], d)
    /\ UNCHANGED otherVars

\* the callback stop() left with setTimeout
TeardownFires ==
    /\ audio.timers # <<>>
    /\ Head(audio.timers).due <= audio.now
    /\ Head(audio.timers).kind = "teardown"
    /\ audio' = [audio EXCEPT !.isPlaying = FALSE,
                              !.layers = freshNodes(@),
                              !.gen = @ + 1,
                              !.timers = Tail(@),
                              !.teardowns = @ + 1]
    /\ UNCHANGED otherVars

\* schedulePulse, called by its timer
PulseFires ==
    /\ audio.timers # <<>>
    /\ Head(audio.timers).due <= audio.now
    /\ Head(audio.timers).kind = "pulse"
    /\ audio' = IF ~audio.isPlaying
                THEN [audio EXCEPT !.timers = Tail(@)]
                ELSE [audio EXCEPT
                        !.timers = setTimeout(Tail(@),
                                      [kind |-> "pulse",
                                       due |-> audio.now + PULSE_TICKS,
                                       gen |-> Head(audio.timers).gen])]
    /\ UNCHANGED otherVars

\* time passes, up to the next timer
AudioPass ==
    /\ audio.timers # <<>> => Head(audio.timers).due > audio.now
    /\ \E t \in {IF audio.timers # <<>>
                 THEN Min(audio.now + PassStep, Head(audio.timers).due)
                 ELSE audio.now + PassStep} :
          /\ t <= MaxAudioTime
          /\ audio' = [audio EXCEPT !.now = t]
    /\ UNCHANGED otherVars

NextAudio ==
    \/ AudioStart
    \/ AudioResumed
    \/ AudioStop
    \/ TeardownFires
    \/ PulseFires
    \/ AudioPass

SpecAudio == InitAudio /\ [][NextAudio]_vars

\* the page: main.js calls toggle() from the sound button and hands
\* updateDistance to the renderer
NextSound ==
    \/ AudioToggle
    \/ AudioUpdateDistance
    \/ AudioResumed
    \/ TeardownFires
    \/ PulseFires
    \/ AudioPass

SpecSound == InitAudio /\ [][NextSound]_vars

AllFresh(a) == \A l \in LayerNames : a.layers[l] = "fresh"

AllStarted(a) == \A l \in LayerNames : a.layers[l] = "started"

\* C19: when the teardown timer of a stop() has fired, isPlaying is false
\* and the nodes are a new set of five layers none of which was started;
\* a start() that runs on such a set starts every layer; this holds for
\* every cycle.
C19_TeardownLeavesFreshNodes ==
    /\ [](~audio.isPlaying =>
             /\ DOMAIN audio.layers = LayerNames
             /\ AllFresh(audio))
    /\ [][audio'.teardowns > audio.teardowns =>
             /\ ~audio'.isPlaying
             /\ AllFresh(audio')
             /\ audio'.gen = audio.gen + 1]_vars
    /\ [][(audio'.started > audio.started /\ AllFresh(audio)) =>
             /\ audio'.isPlaying
             /\ AllStarted(audio')
             /\ audio'.target = 700]_vars

C19_Witness ==
    /\ audio.teardowns = 2
    /\ audio.gen = 2
    /\ audio.started = 3
    /\ audio.errors = 0
    /\ audio.isPlaying
    /\ AllStarted(audio)

---------------------------------------------------------------------------
(* Escape checks of the integration loop (SpecRay).                         *)

\* C21: an iteration ends the ray as ESCAPED only from a position beyond
\* 120 with a closest approach below 40, and as EARLY_ESCAPE only from a
\* position beyond 50 with a closest approach below 30; a ray whose closest
\* approach stays at 40 or more is never ended by an escape check.
C21_EscapeOnlyAfterApproach ==
    /\ [][(ray.outcome = "TRAVELING" /\ ray'.outcome = "ESCAPED") =>
             /\ length(ray.pos) > 120 * PU
             /\ ray'.minR < 40 * PU]_vars
    /\ [][(ray.outcome = "TRAVELING" /\ ray'.outcome = "EARLY_ESCAPE") =>
             /\ length(ray.pos) > 50 * PU
             /\ ray'.minR < 30 * PU]_vars
    /\ [](ray.minR >= 40 * PU => ray.outcome \notin {"ESCAPED", "EARLY_ESCAPE"})

C21_Witness ==
    /\ ray.outcome = "ESCAPED"
    /\ ray.minR < 40 * PU
    /\ ray.minR >= 30 * PU
    /\ length(ray.pos) > 120 * PU

---------------------------------------------------------------------------
(* SpecSettle: a few input events that move the camera targets, then only  *)
(* animation frames.  startLoop() re-arms requestAnimationFrame in every   *)
(* frame, so a frame that can run eventually does.                         *)

SettleSteps == 60

SettleInput ==
    /\ hist.phase = "rest"
    /\ (MouseDown \/ MouseMove \/ Wheel)

SettleFrame ==
    /\ hist.idle < SettleSteps
    /\ clock' = clock + FrameMs
    /\ render(clock')
    /\ hist' = [hist EXCEPT !.phase = "settling", !.idle = @ + 1,
                            !.frames = @ + 1]
    /\ UNCHANGED <<page, rayVars>>

NextSettle == SettleInput \/ SettleFrame

SpecSettle == Init /\ [][NextSettle]_vars /\ WF_vars(SettleFrame)

\* |target - current| of the four smoothed quantities
Gaps(cam) ==
    << Abs(cam.targetAzimuth - cam.azimuth),
       Abs(cam.targetElevation - cam.elevation),
       Abs(cam.targetDistance - cam.distance),
       Abs(cam.targetZoom - cam.zoom) >>

\* the move from v to w is 15% of the gap to target t and stays on v's side
TowardTarget(v, w, t) ==
    /\ w - v = RDiv((t - v) * 15, 100)
    /\ Abs(t - w) <= Abs(t - v)
    /\ (t - w) * (t - v) >= 0

\* C22: while no input event changes the targets, every frame's updateCamera
\* moves azimuth, elevation, distance and zoom by 15% of their gap to the
\* target without passing it, so no gap grows, and the pose ends within the
\* resolution of the arithmetic of the target pose and stays there.
C22_SmoothingConverges ==
    /\ [][gl'.smoothings = gl.smoothings + 1 =>
            /\ TowardTarget(camera.azimuth, camera'.azimuth,
                            camera.targetAzimuth)
            /\ TowardTarget(camera.elevation, camera'.elevation,
                            camera.targetElevation)
            /\ TowardTarget(camera.distance, camera'.distance,
                            camera.targetDistance)
            /\ TowardTarget(camera.zoom, camera'.zoom, camera.targetZoom)
            /\ camera'.targetAzimuth = camera.targetAzimuth
            /\ camera'.targetElevation = camera.targetElevation
            /\ camera'.targetDistance = camera.targetDistance
            /\ camera'.targetZoom = camera.targetZoom]_vars
    /\ <>[](\A k \in 1..4 : Gaps(camera)[k] <= StallGap)

\* a pose that has settled after frames that started with all of azimuth,
\* elevation and distance far from their targets
C22_Witness ==
    /\ hist.idle = SettleSteps
    /\ camera.targetAzimuth # CameraInit.targetAzimuth
    /\ camera.targetElevation # CameraInit.targetElevation
    /\ camera.targetDistance # CameraInit.targetDistance
    /\ \A k \in 1..4 : Gaps(camera)[k] <= StallGap

---------------------------------------------------------------------------
(* SpecTouch: touch gestures of one and two fingers and left-button drags. *)
(* Every touch event reports the positions of all fingers on the screen;   *)
(* the first finger stays down while a second one comes and goes.          *)

MaxTouchEvents == 5

InputEvent ==
    /\ hist.events < MaxTouchEvents
    /\ UNCHANGED <<clock, page, rayVars>>

\* the first finger goes down
FingerDown ==
    /\ hist.phase = "rest"
    /\ \E p \in Points :
          /\ onTouchStart(<<p>>)
          /\ hist' = [hist EXCEPT !.events = @ + 1, !.phase = "one",
                                  !.finger = p, !.op = "touchstart"]
    /\ InputEvent

\* a second finger goes down, or two fingers go down together
SecondFingerDown ==
    /\ \E p \in Points, q \in Points :
          /\ \/ hist.phase = "one" /\ p = hist.finger
             \/ hist.phase = "rest"
          /\ onTouchStart(<<p, q>>)
          /\ hist' = [hist EXCEPT !.events = @ + 1, !.phase = "two",
                                  !.finger = p, !.op = "touchstart"]
    /\ InputEvent

OneFingerMove ==
    /\ hist.phase = "one"
    /\ \E p \in Points :
          /\ onTouchMove(<<p>>)
          /\ hist' = [hist EXCEPT !.events = @ + 1, !.finger = p,
                                  !.op = "touchmove1"]
    /\ InputEvent

TwoFingerMove ==
    /\ hist.phase = "two"
    /\ \E p \in Points, q \in Points :
          /\ onTouchMove(<<p, q>>)
          /\ hist' = [hist EXCEPT !.events = @ + 1, !.finger = p,
                                  !.op = "touchmove2"]
    /\ InputEvent

\* the second finger, or the only finger, is lifted
FingerUp ==
    /\ hist.phase \in {"one", "two"}
    /\ onTouchEnd
    /\ hist' = [hist EXCEPT !.events = @ + 1, !.op = "touchend",
                            !.phase = IF @ = "two" THEN "one" ELSE "rest"]
    /\ InputEvent

LeftDown ==
    /\ \E p \in Points :
          /\ onMouseDown(0, p[1], p[2])
          /\ hist' = [hist EXCEPT !.events = @ + 1, !.pointer = p,
                                  !.op = "mousedown"]
    /\ InputEvent

LeftMove ==
    /\ mouse.isDown
    /\ \E p \in Points :
          /\ onMouseMove(p[1], p[2])
          /\ hist' = [hist EXCEPT !.events = @ + 1, !.pointer = p,
                                  !.op = "mousemove"]
    /\ InputEvent

NextTouch ==
    \/ FingerDown \/ SecondFingerDown \/ OneFingerMove \/ TwoFingerMove
    \/ FingerUp \/ LeftDown \/ LeftMove

SpecTouch == Init /\ [][NextTouch]_vars

\* the targets moved by 0.005 rad per pixel of the displacement from a to b
Follows(a, b) ==
    /\ camera'.targetAzimuth
         = camera.targetAzimuth - (b[1] - a[1]) * SENSITIVITY
    /\ camera'.targetElevation
         = clampElevation(camera.targetElevation + (b[2] - a[2]) * SENSITIVITY)

\* C23: every left-button drag move and every one-finger touch move changes
\* targetAzimuth and the unclamped targetElevation by 0.005 times the
\* displacement of that pointer since the position it last reported.
C23_DragFollowsPointer ==
    [][/\ (hist'.events # hist.events /\ hist'.op = "touchmove1")
             => Follows(hist.finger, hist'.finger)
       /\ (hist'.events # hist.events /\ hist'.op = "mousemove")
             => Follows(hist.pointer, hist'.pointer)]_vars

---------------------------------------------------------------------------
(* What the input handlers write (Spec).                                   *)

\* the step leaves every field of camera outside fields as it was
WritesOnly(fields) ==
    \A f \in DOMAIN camera : f \notin fields => camera'[f] = camera[f]

\* C29: no input handler changes targetZoom, so targetZoom and zoom stay at
\* 1.8; wheel, right-button drag and pinch write nothing of the camera but
\* targetDistance, left-button drag and one-finger drag nothing but
\* targetAzimuth and targetElevation, and the other handlers nothing.
C29_ZoomNeverChanges ==
    /\ [](camera.targetZoom = 1800 /\ camera.zoom = 1800)
    /\ [][hist'.events # hist.events =>
            /\ \/ WritesOnly({"targetDistance"})
               \/ WritesOnly({"targetAzimuth", "targetElevation"})
            /\ (\/ \E d \in WheelDeltas : onWheel(d)
                \/ /\ mouse.isDown /\ mouse.button = 2
                   /\ \E p \in Points : onMouseMove(p[1], p[2])
                \/ \E ts \in TouchLists : Len(ts) = 2 /\ onTouchMove(ts))
                  => WritesOnly({"targetDistance"})
            /\ (\/ /\ mouse.isDown /\ mouse.button = 0
                   /\ \E p \in Points : onMouseMove(p[1], p[2])
                \/ \E ts \in TouchLists : Len(ts) = 1 /\ onTouchMove(ts))
                  => WritesOnly({"targetAzimuth", "targetElevation"})]_vars

\* a frame drawn after a drag has moved the orbit targets and the wheel the
\* distance target
C29_Witness ==
    /\ gl.draws > 0
    /\ camera.targetDistance # CameraInit.targetDistance
    /\ camera.targetAzimuth # CameraInit.targetAzimuth
    /\ camera.targetElevation # CameraInit.targetElevation
    /\ camera.distance # CameraInit.distance
    /\ camera.zoom = 1800

---------------------------------------------------------------------------
(* The compositor's terms (SpecRay).                                       *)

\* C30: stars are added only to a pixel whose final transmission exceeds
\* 0.01, and the photon rings, the lensing glow, the shadow-edge glow and the
\* stars are each at most their unattenuated maximum times the final
\* transmission; a SATURATED or ABSORBED ray gets no star light.
C30_TermsWeightedByTransmission ==
    ray.pc = "done" =>
        /\ ray.starLight > 0 => ray.transmission > SaturationThreshold
        /\ ray.outcome \in {"SATURATED", "ABSORBED"} => ray.starLight = 0
        /\ ray.ringLight >= 0 /\ ray.ringLight * TU <= 6525 * ray.transmission
        /\ ray.glowLight >= 0 /\ ray.glowLight * TU <= 300 * ray.transmission
        /\ ray.edgeLight >= 0 /\ ray.edgeLight * TU <= 80 * ray.transmission
        /\ ray.starLight >= 0 /\ ray.starLight * TU <= 1600 * ray.transmission

\* a composited saturated ray with some transmission left: it gets ring or
\* glow light and no stars
C30_Witness ==
    /\ ray.pc = "done"
    /\ ray.outcome = "SATURATED"
    /\ ray.transmission > 0
    /\ ray.ringLight + ray.glowLight + ray.edgeLight > 0
    /\ ray.starLight = 0

---------------------------------------------------------------------------
(* Properties of the sound button and the audio timers (SpecSound).        *)

IsPulse(t) == t.kind = "pulse"

\* C24: at most one self-rescheduling time-pulse timer is pending at any
\* moment, whatever the toggles and timer firings before it.
C24_OnePulseChain == Len(SelectSeq(audio.timers, IsPulse)) <= 1

\* C25: once a start() has set isPlaying and started the layers, a teardown
\* runs only if stop() was called after that start.
C25_TeardownNeedsLaterStop ==
    [][audio'.teardowns > audio.teardowns => audio.fading]_vars

\* C26: start() never reaches osc.start() on a node that was already
\* started.
C26_NoNodeStartedTwice == audio.errors = 0

\* C27: every toggle() returns the opposite of what the previous one
\* returned, true exactly when it starts playback, and the sound button's
\* class follows it.
C27_ToggleAlternates ==
    [][audio'.click # audio.click =>
          /\ audio'.lastRet # audio.lastRet
          /\ audio'.lastRet = "true" <=>
                (audio'.isPlaying \/ audio'.resuming > 0) /\ ~audio'.fading
          /\ soundButton(audio') # soundButton(audio)]_vars

\* C28: between the start of stop()'s fade-out and the next start, the
\* master gain's target stays 0; updateDistance with isPlaying false writes
\* nothing.
C28_FadeOutNotRetargeted ==
    /\ [](audio.fading => audio.target = 0)
    /\ [][(audio'.updates > audio.updates /\ ~audio.isPlaying) =>
             audio' = [audio EXCEPT !.updates = @ + 1]]_vars

====
